---- MODULE Spec2Model ----
(***************************************************************************)
(* Model of the contact manager:                                           *)
(*   assistant_bot_cli.py  Field / Name / Phone / Record / AddressBook     *)
(*   assistant_bot.py      parse_input, the command handlers and main()    *)
(*                                                                         *)
(* A Python str is a sequence of characters, a character a one-character   *)
(* string; a non-ASCII character is written by its code point ("U+00B2").  *)
(* An exception is a record [type, msg]; NoExc is "nothing was raised".    *)
(***************************************************************************)
EXTENDS Integers, Sequences, FiniteSets, TLC

VARIABLES
    records,        \* the Record objects created so far; a Record's identity is its index
    data,           \* AddressBook.data: name -> identity of the stored Record
    call,           \* the last method call of assistant_bot_cli.py and its outcome
    prev_records,   \* records as they were before that call
    prev_data,      \* data as it was before that call
    contacts,       \* main(): the defaultdict, in insertion order
    pc,             \* main(): "reading", "exited" (break) or "crashed" (exception escaped)
    user_input,     \* main(): the line last read
    output,         \* main(): the texts printed since the previous input()
    prev_contacts   \* contacts as they were before the last line was processed

cli_vars == <<records, data, call, prev_records, prev_data>>
bot_vars == <<contacts, pc, user_input, output, prev_contacts>>
vars == <<records, data, call, prev_records, prev_data,
          contacts, pc, user_input, output, prev_contacts>>

(***************************************************************************)
(* Bounds of the model.                                                    *)
(***************************************************************************)
MaxPhones == 3
MaxRecords == 3
MaxArgs == 3

(***************************************************************************)
(* Strings and exceptions.                                                 *)
(***************************************************************************)
AsciiDigits == {"0", "1", "2", "3", "4", "5", "6", "7", "8", "9"}

\* Characters outside 0-9 for which str.isdigit() is true: SUPERSCRIPT TWO
\* and ARABIC-INDIC DIGIT THREE.
UnicodeDigits == {"U+00B2", "U+0663"}

NoExc == [type |-> "none", msg |-> ""]

ValueError(msg) == [type |-> "ValueError", msg |-> msg]

\* str.isdigit(): the string is not empty and every character is a digit
\* character (Unicode Numeric_Type Digit or Decimal).
isdigit(s) ==
    /\ Len(s) > 0
    /\ \A i \in 1..Len(s) : s[i] \in AsciiDigits \cup UnicodeDigits

PhoneLen == 10

\* The strings the method calls are given.
Str1234567890 == <<"1", "2", "3", "4", "5", "6", "7", "8", "9", "0">>
Str5555555555 == <<"5", "5", "5", "5", "5", "5", "5", "5", "5", "5">>
Str12345 == <<"1", "2", "3", "4", "5">>
Str12345678901 == <<"1", "2", "3", "4", "5", "6", "7", "8", "9", "0", "1">>
Str12a4567890 == <<"1", "2", "a", "4", "5", "6", "7", "8", "9", "0">>
Str123456789Sup2 == <<"1", "2", "3", "4", "5", "6", "7", "8", "9", "U+00B2">>

PhoneInputs ==
    {Str1234567890, Str5555555555, Str12345, Str12345678901, Str12a4567890,
     Str123456789Sup2}

Names == {"John", "Jane"}

(***************************************************************************)
(* assistant_bot_cli.py: Field, Name, Phone.                               *)
(***************************************************************************)
Field(value) == [value |-> value]

Name(value) == Field(value)

\* Phone.__init__: the exception raised (NoExc if none) and the object built.
Phone(value) ==
    IF ~isdigit(value) \/ Len(value) # PhoneLen
    THEN [exc |-> ValueError("Phone number must be 10 digits"), obj |-> <<>>]
    ELSE [exc |-> NoExc, obj |-> <<Field(value)>>]

(***************************************************************************)
(* assistant_bot_cli.py: Record.  Each method is given the phones list and *)
(* yields [exc, phones, ret]: the exception raised, the list afterwards    *)
(* and the value returned (<<>> for None, <<v>> for v).                    *)
(***************************************************************************)
Record(name) == [name |-> Name(name), phones |-> <<>>]

add_phone(phones, phone) ==
    LET p == Phone(phone) IN
    IF p.exc # NoExc
    THEN [exc |-> p.exc, phones |-> phones, ret |-> <<>>]
    ELSE [exc |-> NoExc, phones |-> Append(phones, p.obj[1]), ret |-> <<>>]

RECURSIVE RemoveFirst(_, _)
RemoveFirst(phones, phone) ==
    IF phones = <<>> THEN <<>>
    ELSE IF Head(phones).value = phone THEN Tail(phones)
    ELSE <<Head(phones)>> \o RemoveFirst(Tail(phones), phone)

\* list.remove-like: only the first match goes.
remove_phone_mut(phones, phone) ==
    [exc |-> NoExc, phones |-> RemoveFirst(phones, phone), ret |-> <<>>]

remove_phone(phones, phone) ==
    [exc |-> NoExc,
     phones |-> SelectSeq(phones, LAMBDA p : p.value # phone),
     ret |-> <<>>]

\* The index of the first phone whose value is `phone`, 0 if there is none:
\* where the loops of edit_phone and find_phone stop.
FirstIndex(phones, phone) ==
    IF \E i \in 1..Len(phones) : phones[i].value = phone
    THEN CHOOSE i \in 1..Len(phones) :
            /\ phones[i].value = phone
            /\ \A j \in 1..(i - 1) : phones[j].value # phone
    ELSE 0

edit_phone(phones, old_phone, new_phone) ==
    LET i == FirstIndex(phones, old_phone) IN
    IF i # 0
    THEN [exc |-> NoExc,
          phones |-> [phones EXCEPT ![i].value = new_phone],
          ret |-> <<>>]
    ELSE [exc |-> ValueError("Phone not found"), phones |-> phones, ret |-> <<>>]

find_phone(phones, phone) ==
    LET i == FirstIndex(phones, phone) IN
    [exc |-> NoExc,
     phones |-> phones,
     ret |-> IF i # 0 THEN <<phones[i].value>> ELSE <<>>]

(***************************************************************************)
(* assistant_bot_cli.py: AddressBook.  Each method is given the dict and   *)
(* yields [exc, data, ret]; a Record is passed and returned by identity    *)
(* (0 for None).                                                           *)
(***************************************************************************)
EmptyDict == [n \in {} |-> 0]

DictSet(d, key, v) == [k \in DOMAIN d \cup {key} |-> IF k = key THEN v ELSE d[k]]

DictDel(d, key) == [k \in DOMAIN d \ {key} |-> d[k]]

\* dict.setdefault-like: an existing entry is kept.
add_record_mut(d, heap, r) ==
    LET key == heap[r].name.value IN
    [exc |-> NoExc,
     data |-> IF key \in DOMAIN d THEN d ELSE DictSet(d, key, r),
     ret |-> 0]

add_record(d, heap, r) ==
    [exc |-> NoExc, data |-> DictSet(d, heap[r].name.value, r), ret |-> 0]

find(d, name) ==
    [exc |-> NoExc, data |-> d, ret |-> IF name \in DOMAIN d THEN d[name] ELSE 0]

\* del without the membership test.
delete_mut(d, name) ==
    IF name \in DOMAIN d
    THEN [exc |-> NoExc, data |-> DictDel(d, name), ret |-> 0]
    ELSE [exc |-> [type |-> "KeyError", msg |-> name], data |-> d, ret |-> 0]

delete(d, name) ==
    IF name \in DOMAIN d
    THEN [exc |-> NoExc, data |-> DictDel(d, name), ret |-> 0]
    ELSE [exc |-> NoExc, data |-> d, ret |-> 0]

(***************************************************************************)
(* The calls as steps.  call = [op, rid, name, args, exc, ret, found]:     *)
(* the method, the Record it was called on or given (0 if none), the name  *)
(* given ("" if none), the phone strings given, the exception raised, the  *)
(* phone returned and the Record returned (0 for None).                    *)
(***************************************************************************)
NoCall ==
    [op |-> "none", rid |-> 0, name |-> "", args |-> <<>>, exc |-> NoExc,
     ret |-> <<>>, found |-> 0]

RecordStep(op, r, args, res) ==
    /\ call' = [op |-> op, rid |-> r, name |-> "", args |-> args,
                exc |-> res.exc, ret |-> res.ret, found |-> 0]
    /\ records' = [records EXCEPT ![r].phones = res.phones]
    /\ prev_records' = records
    /\ prev_data' = data
    /\ UNCHANGED data
    /\ UNCHANGED bot_vars

BookStep(op, r, name, res) ==
    /\ call' = [op |-> op, rid |-> r, name |-> name, args |-> <<>>,
                exc |-> res.exc, ret |-> <<>>, found |-> res.ret]
    /\ data' = res.data
    /\ prev_records' = records
    /\ prev_data' = data
    /\ UNCHANGED records
    /\ UNCHANGED bot_vars

CallAddPhone ==
    \E r \in 1..Len(records), phone \in PhoneInputs :
        /\ Len(records[r].phones) < MaxPhones
        /\ RecordStep("add_phone", r, <<phone>>, add_phone(records[r].phones, phone))

CallRemovePhone ==
    \E r \in 1..Len(records), phone \in PhoneInputs :
        RecordStep("remove_phone", r, <<phone>>, remove_phone(records[r].phones, phone))

CallEditPhone ==
    \E r \in 1..Len(records), old_phone \in PhoneInputs, new_phone \in PhoneInputs :
        RecordStep("edit_phone", r, <<old_phone, new_phone>>,
                   edit_phone(records[r].phones, old_phone, new_phone))

CallFindPhone ==
    \E r \in 1..Len(records), phone \in PhoneInputs :
        RecordStep("find_phone", r, <<phone>>, find_phone(records[r].phones, phone))

CallRecord ==
    \E name \in Names :
        /\ Len(records) < MaxRecords
        /\ records' = Append(records, Record(name))
        /\ call' = [NoCall EXCEPT !.op = "Record", !.rid = Len(records) + 1,
                                  !.name = name]
        /\ prev_records' = records
        /\ prev_data' = data
        /\ UNCHANGED data
        /\ UNCHANGED bot_vars

CallAddRecord ==
    \E r \in 1..Len(records) :
        BookStep("add_record", r, records[r].name.value, add_record(data, records, r))

CallFind ==
    \E name \in Names : BookStep("find", 0, name, find(data, name))

CallDelete ==
    \E name \in Names : BookStep("delete", 0, name, delete(data, name))

BotIdle ==
    /\ contacts = <<>>
    /\ pc = "reading"
    /\ user_input = <<>>
    /\ output = <<>>
    /\ prev_contacts = <<>>

\* One Record, just constructed.
InitRecord ==
    /\ \E name \in Names : records = <<Record(name)>>
    /\ data = EmptyDict
    /\ call = [NoCall EXCEPT !.op = "Record", !.rid = 1,
                             !.name = records[1].name.value]
    /\ prev_records = <<>>
    /\ prev_data = EmptyDict
    /\ BotIdle

NextRecord == CallAddPhone \/ CallRemovePhone \/ CallEditPhone \/ CallFindPhone

SpecRecord == InitRecord /\ [][NextRecord]_vars

\* book = AddressBook(), no Record yet.
InitBook ==
    /\ records = <<>>
    /\ data = EmptyDict
    /\ call = NoCall
    /\ prev_records = <<>>
    /\ prev_data = EmptyDict
    /\ BotIdle

NextBook == CallRecord \/ CallAddRecord \/ CallFind \/ CallDelete

SpecBook == InitBook /\ [][NextBook]_vars

(***************************************************************************)
(* assistant_bot.py: the words typed, parse_input.                         *)
(***************************************************************************)
Whitespace == {" ", "\t"}

W_hello == <<"h", "e", "l", "l", "o">>
W_add == <<"a", "d", "d">>
W_ADD == <<"A", "D", "D">>
W_change == <<"c", "h", "a", "n", "g", "e">>
W_phone == <<"p", "h", "o", "n", "e">>
W_all == <<"a", "l", "l">>
W_exit == <<"e", "x", "i", "t">>
W_Exit == <<"E", "x", "i", "t">>
W_close == <<"c", "l", "o", "s", "e">>
W_remove == <<"r", "e", "m", "o", "v", "e">>
W_John == <<"J", "o", "h", "n">>
W_Jane == <<"J", "a", "n", "e">>
W_x == <<"x">>

\* First words typed: every verb, two of them in another case, and a word
\* that is no verb.
Verbs ==
    {W_hello, W_add, W_ADD, W_change, W_phone, W_all, W_exit, W_Exit, W_close,
     W_remove}

ArgNames == {W_John, W_Jane}

ArgPhones == {Str1234567890, Str12345}

\* Argument lists of 0..MaxArgs words: a name, a phone, then surplus words.
ArgLists ==
    {[i \in 1..k |-> IF i = 1 THEN n ELSE IF i = 2 THEN p ELSE W_x] :
        k \in 0..MaxArgs, n \in ArgNames, p \in ArgPhones}

RECURSIVE Join(_)
Join(words) ==
    IF words = <<>> THEN <<>>
    ELSE IF Len(words) = 1 THEN words[1]
    ELSE words[1] \o <<" ">> \o Join(Tail(words))

\* The lines typed: empty, whitespace only, or a verb and its arguments
\* separated by blanks, with or without whitespace around them.
Lines ==
    {<<>>, <<" ", "\t">>}
    \cup {pad \o Join(<<verb>> \o args) \o pad :
            verb \in Verbs, args \in ArgLists, pad \in {<<>>, <<" ">>}}

\* str.split(): the maximal runs of non-whitespace characters.
RECURSIVE SplitRuns(_, _, _)
SplitRuns(s, cur, acc) ==
    IF s = <<>> THEN (IF cur = <<>> THEN acc ELSE Append(acc, cur))
    ELSE IF Head(s) \in Whitespace
    THEN SplitRuns(Tail(s), <<>>, IF cur = <<>> THEN acc ELSE Append(acc, cur))
    ELSE SplitRuns(Tail(s), Append(cur, Head(s)), acc)

split(s) == SplitRuns(s, <<>>, <<>>)

LowerChar(c) ==
    CASE c = "A" -> "a"
      [] c = "D" -> "d"
      [] c = "E" -> "e"
      [] c = "J" -> "j"
      [] OTHER -> c

\* str.lower()
lower(s) == [i \in 1..Len(s) |-> LowerChar(s[i])]

\* parse_input: [exc, cmd, args].  Unpacking `cmd, *args` from an empty list
\* raises ValueError.
parse_input(line) ==
    LET words == split(line) IN
    IF words = <<>>
    THEN [exc |-> ValueError("not enough values to unpack (expected at least 1, got 0)"),
          cmd |-> <<>>, args |-> <<>>]
    ELSE [exc |-> NoExc, cmd |-> lower(Head(words)), args |-> Tail(words)]

(***************************************************************************)
(* assistant_bot.py: the defaultdict(str), kept in insertion order as a    *)
(* sequence of [name, phone].                                              *)
(***************************************************************************)
KeyIndex(d, name) ==
    IF \E i \in 1..Len(d) : d[i].name = name
    THEN CHOOSE i \in 1..Len(d) : d[i].name = name
    ELSE 0

\* name in contacts
Contains(d, name) == KeyIndex(d, name) # 0

\* contacts[name] = phone
SetItem(d, name, phone) ==
    IF Contains(d, name)
    THEN [d EXCEPT ![KeyIndex(d, name)].phone = phone]
    ELSE Append(d, [name |-> name, phone |-> phone])

\* contacts[name]: a missing key is inserted with the default str() first.
GetItem(d, name) ==
    IF Contains(d, name)
    THEN [value |-> d[KeyIndex(d, name)].phone, contacts |-> d]
    ELSE [value |-> <<>>, contacts |-> Append(d, [name |-> name, phone |-> <<>>])]

(***************************************************************************)
(* assistant_bot.py: the handlers.  A handler yields [exc, ret, contacts]; *)
(* a text is [msg, vals]: the format string and the values put into it.    *)
(***************************************************************************)
Text(msg) == [msg |-> msg, vals |-> <<>>]

Fmt(msg, vals) == [msg |-> msg, vals |-> vals]

NoText == Text("")

KeyError(text) == [type |-> "KeyError", msg |-> text]

IndexError == [type |-> "IndexError", msg |-> Text("list index out of range")]

\* `name, phone = args` with a list that does not hold two words.
UnpackError(args) ==
    CASE Len(args) = 0 ->
            ValueError("not enough values to unpack (expected 2, got 0)")
      [] Len(args) = 1 ->
            ValueError("not enough values to unpack (expected 2, got 1)")
      [] OTHER -> ValueError("too many values to unpack (expected 2)")

\* input_error.inner: the three exception types become texts, anything
\* else goes on to the caller.
input_error(res) ==
    CASE res.exc.type = "ValueError" ->
            [exc |-> NoExc, ret |-> Text("Give me name and phone please."),
             contacts |-> res.contacts]
      [] res.exc.type = "KeyError" ->
            [exc |-> NoExc,
             ret |-> Fmt("Given key not found '{}'", <<res.exc.msg>>),
             contacts |-> res.contacts]
      [] res.exc.type = "IndexError" ->
            [exc |-> NoExc, ret |-> Text("Insufficient data provided."),
             contacts |-> res.contacts]
      [] OTHER -> res

add_contact_body(args, d) ==
    IF Len(args) # 2
    THEN [exc |-> UnpackError(args), ret |-> NoText, contacts |-> d]
    ELSE [exc |-> NoExc, ret |-> Text("Contact added."),
          contacts |-> SetItem(d, args[1], args[2])]

add_contact(args, d) == input_error(add_contact_body(args, d))

\* Assigns without the membership test.
change_contact_mut(args, d) ==
    IF Len(args) # 2
    THEN [exc |-> UnpackError(args), ret |-> NoText, contacts |-> d]
    ELSE [exc |-> NoExc, ret |-> Text("Contact updated."),
          contacts |-> SetItem(d, args[1], args[2])]

change_contact_body(args, d) ==
    IF Len(args) # 2
    THEN [exc |-> UnpackError(args), ret |-> NoText, contacts |-> d]
    ELSE IF Contains(d, args[1])
    THEN [exc |-> NoExc, ret |-> Text("Contact updated."),
          contacts |-> SetItem(d, args[1], args[2])]
    ELSE [exc |-> KeyError(Fmt("Contact {} not found.", <<args[1]>>)),
          ret |-> NoText, contacts |-> d]

change_contact(args, d) == input_error(change_contact_body(args, d))

\* Reads contacts[name] without the membership test.
show_phone_mut(args, d) ==
    IF Len(args) < 1
    THEN [exc |-> IndexError, ret |-> NoText, contacts |-> d]
    ELSE LET got == GetItem(d, args[1]) IN
         IF got.value # <<>>
         THEN [exc |-> NoExc, ret |-> Fmt("{}", <<got.value>>),
               contacts |-> got.contacts]
         ELSE [exc |-> NoExc, ret |-> Text("Contact not found."),
               contacts |-> got.contacts]

show_phone_body(args, d) ==
    IF Len(args) < 1
    THEN [exc |-> IndexError, ret |-> NoText, contacts |-> d]
    ELSE IF Contains(d, args[1])
    THEN LET got == GetItem(d, args[1]) IN
         [exc |-> NoExc, ret |-> Fmt("{}", <<got.value>>), contacts |-> got.contacts]
    ELSE [exc |-> NoExc, ret |-> Text("Contact not found."), contacts |-> d]

show_phone(args, d) == input_error(show_phone_body(args, d))

RECURSIVE Items(_)
Items(d) ==
    IF d = <<>> THEN <<>> ELSE <<Head(d).name, Head(d).phone>> \o Items(Tail(d))

\* One "{name}: {phone}" line per entry, in the dict's order.
show_all(d) ==
    IF d # <<>>
    THEN [exc |-> NoExc, ret |-> Fmt("\\n.join({}: {})", Items(d)), contacts |-> d]
    ELSE [exc |-> NoExc, ret |-> Text("No contacts found."), contacts |-> d]

(***************************************************************************)
(* assistant_bot.py: main().  One iteration of the loop on one line:       *)
(* [pc, output, contacts] afterwards, output being the texts printed (none *)
(* when an exception ends the iteration before its print).                 *)
(***************************************************************************)
Printed(res) ==
    IF res.exc # NoExc
    THEN [pc |-> "crashed", output |-> <<>>, contacts |-> res.contacts]
    ELSE [pc |-> "reading", output |-> <<res.ret>>, contacts |-> res.contacts]

main_iteration(line, d) ==
    LET parsed == parse_input(line)
        command == parsed.cmd
        args == parsed.args
    IN  IF parsed.exc # NoExc
        THEN [pc |-> "crashed", output |-> <<>>, contacts |-> d]
        ELSE IF command \in {W_close, W_exit}
        THEN [pc |-> "exited", output |-> <<Text("Good bye!")>>, contacts |-> d]
        ELSE IF command = W_hello
        THEN [pc |-> "reading", output |-> <<Text("How can I help you?")>>, contacts |-> d]
        ELSE IF command = W_add THEN Printed(add_contact(args, d))
        ELSE IF command = W_change THEN Printed(change_contact(args, d))
        ELSE IF command = W_phone THEN Printed(show_phone(args, d))
        ELSE IF command = W_all THEN Printed(show_all(d))
        ELSE [pc |-> "reading", output |-> <<Text("Invalid command.")>>, contacts |-> d]

main ==
    /\ pc = "reading"
    /\ \E line \in Lines :
        LET after == main_iteration(line, contacts) IN
        /\ user_input' = line
        /\ prev_contacts' = contacts
        /\ contacts' = after.contacts
        /\ output' = after.output
        /\ pc' = after.pc
    /\ UNCHANGED cli_vars

CliIdle ==
    /\ records = <<>>
    /\ data = EmptyDict
    /\ call = NoCall
    /\ prev_records = <<>>
    /\ prev_data = EmptyDict

\* main() up to its first input(): the empty defaultdict, the welcome printed.
InitBot ==
    /\ contacts = <<>>
    /\ pc = "reading"
    /\ user_input = <<>>
    /\ output = <<Text("Welcome to the assistant bot!")>>
    /\ prev_contacts = <<>>
    /\ CliIdle

NextBot == main

SpecBot == InitBot /\ [][NextBot]_vars

(***************************************************************************)
(* Properties.                                                             *)
(***************************************************************************)
\* A string of exactly 10 characters, each one of 0-9.
TenDecimalDigits(s) == Len(s) = 10 /\ \A i \in 1..Len(s) : s[i] \in AsciiDigits

\* The phones list the last Record call found, and the one it left.
PhonesBefore == prev_records[call.rid].phones

PhonesAfter == records[call.rid].phones

\* The i-th phone, in list order, among those of `phones` whose value is not v.
KeptIndices(phones, v) == {i \in 1..Len(phones) : phones[i].value # v}

NthKept(phones, v, n) ==
    CHOOSE i \in KeptIndices(phones, v) :
        Cardinality({j \in KeptIndices(phones, v) : j < i}) = n - 1

\* What the last line read parsed to.
Parsed == parse_input(user_input)

KnownVerbs == {W_hello, W_add, W_change, W_phone, W_all, W_exit, W_close}

\* C1: edit_phone(old, new) validates `new`: when `new` is not exactly 10
\* decimal digits the call fails with the validation error and leaves the
\* phones unchanged, so that no phone of a record is ever anything else than
\* 10 decimal digits.
C1_EditPhoneValidatesNew ==
    (call.op = "edit_phone" /\ ~TenDecimalDigits(call.args[2]))
        => /\ call.exc.type = "ValueError"
           /\ PhonesAfter = PhonesBefore

\* C2: every line read is answered and the loop goes back to reading; no
\* exception escapes; the loop is left only on exit or close.
C2_EveryLineAnswered ==
    /\ pc # "crashed"
    /\ Len(output) = 1
    /\ pc = "exited" => (Parsed.exc = NoExc /\ Parsed.cmd \in {W_exit, W_close})

\* C3: edit_phone(old, new) with no phone of value `old` raises an error
\* whose kind is not the kind raised for a badly formatted number, and
\* leaves the phones list unchanged.
C3_NotFoundKindDistinct ==
    (call.op = "edit_phone" /\ FirstIndex(PhonesBefore, call.args[1]) = 0)
        => /\ call.exc # NoExc
           /\ \A v \in PhoneInputs :
                Phone(v).exc # NoExc => Phone(v).exc.type # call.exc.type
           /\ records = prev_records

\* C4: a Phone is constructed (here by add_phone) if and only if the string
\* is exactly 10 characters 0-9; otherwise the validation error is raised
\* and nothing is appended.
C4_PhoneIffTenDecimalDigits ==
    call.op = "add_phone"
        => /\ call.exc = NoExc <=> TenDecimalDigits(call.args[1])
           /\ call.exc # NoExc => PhonesAfter = PhonesBefore

\* C5: after add_record(r), find(r.name) returns r itself, also when another
\* record was stored under that name; every other name maps as before; and
\* find of a name that is no key returns None, raises nothing and leaves the
\* book as it was.
C5_AddRecordThenFind ==
    /\ call.op = "add_record"
        => LET key == records[call.rid].name.value IN
           /\ call.exc = NoExc
           /\ find(data, key).ret = call.rid
           /\ \A n \in Names \ {key} :
                /\ n \in DOMAIN data <=> n \in DOMAIN prev_data
                /\ n \in DOMAIN data => data[n] = prev_data[n]
           /\ records = prev_records
    /\ call.op = "find"
        => /\ call.exc = NoExc
           /\ data = prev_data
           /\ records = prev_records
           /\ call.name \notin DOMAIN prev_data => call.found = 0
           /\ call.name \in DOMAIN prev_data => call.found = prev_data[call.name]

\* C5 witness: add_record replaced another record stored under the same name
\* while another name was in the book.
C5_Witness ==
    /\ call.op = "add_record"
    /\ records[call.rid].name.value \in DOMAIN prev_data
    /\ prev_data[records[call.rid].name.value] # call.rid
    /\ Cardinality(DOMAIN data) > 1

\* C6: delete(name) never raises; for a key it removes that entry and no
\* other; for a name that is no key it leaves the book as it was.
C6_DeleteFrame ==
    call.op = "delete"
        => /\ call.exc = NoExc
           /\ records = prev_records
           /\ call.name \in DOMAIN prev_data
                => /\ DOMAIN data = DOMAIN prev_data \ {call.name}
                   /\ \A n \in DOMAIN data : data[n] = prev_data[n]
                   /\ find(data, call.name).ret = 0
           /\ call.name \notin DOMAIN prev_data => data = prev_data

\* C6 witness: delete was called with a name that is no key of a book that
\* has entries.
C6_Witness ==
    /\ call.op = "delete"
    /\ call.name \notin DOMAIN prev_data
    /\ prev_data # EmptyDict

\* C7: remove_phone(value) removes every phone of that value, keeps the
\* others in their order, raises nothing, and changes nothing when no phone
\* has that value.
C7_RemoveAllOccurrences ==
    call.op = "remove_phone"
        => LET v == call.args[1]
               kept == KeptIndices(PhonesBefore, v)
           IN  /\ call.exc = NoExc
               /\ find_phone(PhonesAfter, v).ret = <<>>
               /\ Len(PhonesAfter) = Cardinality(kept)
               /\ \A n \in 1..Len(PhonesAfter) :
                    PhonesAfter[n] = PhonesBefore[NthKept(PhonesBefore, v, n)]
               /\ kept = 1..Len(PhonesBefore) => PhonesAfter = PhonesBefore

\* C7 witness: remove_phone took two phones of the same value out of a list
\* and left another one.
C7_Witness ==
    /\ call.op = "remove_phone"
    /\ Len(PhonesBefore) = Len(PhonesAfter) + 2
    /\ PhonesAfter # <<>>

\* C8: an add or change whose phone is not exactly 10 decimal digits leaves
\* the contacts unchanged, so every phone in the contacts is 10 decimal
\* digits.
C8_DispatcherValidatesPhone ==
    /\ (/\ Parsed.exc = NoExc
        /\ Parsed.cmd \in {W_add, W_change}
        /\ Len(Parsed.args) = 2
        /\ ~TenDecimalDigits(Parsed.args[2]))
            => contacts = prev_contacts
    /\ \A i \in 1..Len(contacts) : TenDecimalDigits(contacts[i].phone)

\* C9: change for a name that is not in the contacts answers with the
\* key-not-found text, not "Contact updated.", adds no entry and changes
\* nothing; for a name that is, it replaces that name's phone only and
\* answers "Contact updated.".
C9_ChangeContact ==
    (Parsed.exc = NoExc /\ Parsed.cmd = W_change /\ Len(Parsed.args) = 2)
        => LET name == Parsed.args[1]
               phone == Parsed.args[2]
           IN  /\ pc = "reading"
               /\ ~Contains(prev_contacts, name)
                    => /\ output = <<Fmt("Given key not found '{}'",
                                         <<Fmt("Contact {} not found.", <<name>>)>>)>>
                       /\ output[1].msg # "Contact updated."
                       /\ ~Contains(contacts, name)
                       /\ contacts = prev_contacts
               /\ Contains(prev_contacts, name)
                    => /\ output = <<Text("Contact updated.")>>
                       /\ Len(contacts) = Len(prev_contacts)
                       /\ \A i \in 1..Len(contacts) :
                            /\ contacts[i].name = prev_contacts[i].name
                            /\ contacts[i].phone =
                                IF prev_contacts[i].name = name THEN phone
                                ELSE prev_contacts[i].phone

\* C9 witness: change was given a name that is not in contacts that hold
\* another name.
C9_Witness ==
    /\ Parsed.exc = NoExc
    /\ Parsed.cmd = W_change
    /\ Len(Parsed.args) = 2
    /\ prev_contacts # <<>>
    /\ ~Contains(prev_contacts, Parsed.args[1])

\* C10: hello, phone, all, a word that is no verb, and add, change or phone
\* with a wrong number of arguments leave the contacts unchanged; phone for
\* a name not in the contacts answers "Contact not found." and inserts
\* nothing, so that all on contacts nothing was added to answers
\* "No contacts found.".
C10_ReadOnlyCommands ==
    Parsed.exc = NoExc
        => LET command == Parsed.cmd
               args == Parsed.args
           IN  /\ (\/ command \in {W_hello, W_phone, W_all}
                   \/ command \notin KnownVerbs
                   \/ command \in {W_add, W_change} /\ Len(args) # 2)
                    => (contacts = prev_contacts /\ pc = "reading")
               /\ (/\ command = W_phone
                   /\ Len(args) >= 1
                   /\ ~Contains(prev_contacts, args[1]))
                    => /\ output = <<Text("Contact not found.")>>
                       /\ ~Contains(contacts, args[1])
               /\ (command = W_phone /\ prev_contacts = <<>>)
                    => show_all(contacts).ret = Text("No contacts found.")
               /\ (command = W_all /\ prev_contacts = <<>>)
                    => output = <<Text("No contacts found.")>>

\* C10 witness: phone was given a name while nothing had been added.
C10_Witness ==
    /\ Parsed.exc = NoExc
    /\ Parsed.cmd = W_phone
    /\ Len(Parsed.args) >= 1
    /\ prev_contacts = <<>>
    /\ output = <<Text("Contact not found.")>>

====
